---------------------------- MODULE Spec2Model ----------------------------
(***************************************************************************)
(* Model of the OAuth broker: the login handler, the callback handler,    *)
(* the cookie codec, the configuration and the origin resolver.           *)
(*                                                                         *)
(* Strings are sequences of symbols.  A symbol is either one character     *)
(* that the codec treats specially (":", "=", ";", "%", " ", and the hex   *)
(* digits that follow a "%"), or a word: a run of characters none of which *)
(* is special ("create", "oauth_state", "HttpOnly", a run of random hex    *)
(* digits, ...).  JavaScript's undefined and null are the one-symbol       *)
(* strings Undefined and Null, which no request or response text contains. *)
(***************************************************************************)
EXTENDS Integers, Sequences, FiniteSets, TLC

Undefined == <<"<undefined>">>
Null == <<"<null>">>

\* the outcome of an expression that raised an exception
Thrown == <<"<exception>">>

\* JavaScript truthiness of a string-or-undefined value: !!s
Truthy(s) == s # Undefined /\ s # Null /\ s # <<>>

-----------------------------------------------------------------------------
(* String primitives *)

\* String.prototype.split(sep) with a one-character separator
RECURSIVE SplitFrom(_, _, _, _)
SplitFrom(s, sep, i, cur) ==
    IF i > Len(s) THEN <<cur>>
    ELSE IF s[i] = sep THEN <<cur>> \o SplitFrom(s, sep, i + 1, <<>>)
    ELSE SplitFrom(s, sep, i + 1, Append(cur, s[i]))

Split(s, sep) == SplitFrom(s, sep, 1, <<>>)

\* String.prototype.trim()
RECURSIVE TrimLeft(_)
TrimLeft(s) == IF s # <<>> /\ Head(s) = " " THEN TrimLeft(Tail(s)) ELSE s

RECURSIVE TrimRight(_)
TrimRight(s) ==
    IF s # <<>> /\ s[Len(s)] = " " THEN TrimRight(SubSeq(s, 1, Len(s) - 1)) ELSE s

Trim(s) == TrimRight(TrimLeft(s))

\* a UTF-16 surrogate that has no partner: one character, which a string taken
\* from a JSON event can hold
LoneSurrogate == "<U+D800>"

\* the characters encodeURIComponent escapes, with their escapes
EscapeOf(c) ==
    CASE c = ":" -> <<"%", "3", "A">>
      [] c = "=" -> <<"%", "3", "D">>
      [] c = ";" -> <<"%", "3", "B">>
      [] c = "%" -> <<"%", "2", "5">>
      [] c = " " -> <<"%", "2", "0">>
      [] OTHER -> <<c>>

RECURSIVE EncodeFrom(_)
EncodeFrom(s) ==
    IF s = <<>> THEN <<>> ELSE EscapeOf(Head(s)) \o EncodeFrom(Tail(s))

\* encodeURIComponent, Thrown (URIError: URI malformed) on a lone surrogate
encodeURIComponent(s) ==
    IF \E i \in 1..Len(s) : s[i] = LoneSurrogate THEN Thrown ELSE EncodeFrom(s)

\* the character a "%XY" escape stands for; "" when the model has none.
\* The inputs of the model use no escape outside this table, so every other
\* "%" is a malformed escape, on which decodeURIComponent raises URIError.
Unescape(h1, h2) ==
    CASE h1 = "3" /\ h2 = "A" -> ":"
      [] h1 = "3" /\ h2 = "D" -> "="
      [] h1 = "3" /\ h2 = "B" -> ";"
      [] h1 = "2" /\ h2 = "5" -> "%"
      [] h1 = "2" /\ h2 = "0" -> " "
      [] OTHER -> ""

\* decodeURIComponent, Thrown on a malformed escape
RECURSIVE DecodeFrom(_, _, _)
DecodeFrom(s, i, acc) ==
    IF i > Len(s) THEN acc
    ELSE IF s[i] # "%" THEN DecodeFrom(s, i + 1, Append(acc, s[i]))
    ELSE IF i + 2 > Len(s) THEN Thrown
    ELSE IF Unescape(s[i + 1], s[i + 2]) = "" THEN Thrown
    ELSE DecodeFrom(s, i + 3, Append(acc, Unescape(s[i + 1], s[i + 2])))

decodeURIComponent(s) == DecodeFrom(s, 1, <<>>)

-----------------------------------------------------------------------------
(* Configuration: config/index.js.  env is process.env. *)

\* a || b on strings-or-undefined
OrElse(a, b) == IF Truthy(a) THEN a ELSE b

isProduction(e) == e.NODE_ENV = "production"

\* config.security.stateLength: bytes drawn for the random part of a state
stateLength == 16

\* maxAge of getCookieOptions, seconds
CookieMaxAge == 600

\* allowedOrigins as getConfig computes it: the projects' frontend URLs, then
\* ADDITIONAL_ORIGINS split on ",", the falsy entries dropped, then outside
\* production the four localhost origins
AllowedOriginsOf(e, projects) ==
    LET fromProjects == <<projects[<<"create">>].frontendUrl,
                          projects[<<"prompts">>].frontendUrl>>
        extra == IF e.ADDITIONAL_ORIGINS = Undefined THEN <<>>
                 ELSE Split(e.ADDITIONAL_ORIGINS, ",")
        kept == SelectSeq(fromProjects \o extra, LAMBDA o : o # <<>>)
        dev == << <<"http://localhost:3000">>, <<"http://localhost:3001">>,
                  <<"http://localhost:5173">>, <<"http://localhost:5174">> >>
    IN  IF isProduction(e) THEN kept ELSE kept \o dev

getConfig(e) ==
    LET projects ==
            (<<"create">> :> [name |-> <<"create">>,
                              frontendUrl |-> IF isProduction(e)
                                              THEN <<"https://create.rbios.net">>
                                              ELSE <<"http://localhost:5173">>])
         @@ (<<"prompts">> :> [name |-> <<"prompts">>,
                               frontendUrl |-> IF isProduction(e)
                                               THEN <<"https://prompts.rbios.net">>
                                               ELSE <<"http://localhost:5174">>])
    IN  [github |-> [clientId |-> OrElse(e.GITHUB_CLIENT_ID, e.GH_CLIENT_ID),
                     clientSecret |-> OrElse(e.GITHUB_CLIENT_SECRET, e.GH_CLIENT_SECRET),
                     scope |-> <<"repo,user">>],
         api |-> [baseUrl |-> OrElse(e.OAUTH_API_URL,
                                     IF isProduction(e) THEN <<"https://api.rbios.net">>
                                     ELSE <<"http://localhost:3000">>),
                  callbackPath |-> <<"/oauth/callback">>],
         projects |-> projects,
         allowedOrigins |-> AllowedOriginsOf(e, projects),
         security |-> [stateLength |-> stateLength, cookieMaxAge |-> CookieMaxAge]]

\* a validation that forgets the client secret
validateConfigNoSecret(e) ==
    LET config == getConfig(e)
        errors ==
            (IF ~Truthy(config.github.clientId)
             THEN <<"Missing GitHub Client ID">> ELSE <<>>)
         \o (IF Len(config.allowedOrigins) = 0
             THEN <<"No allowed origins configured">> ELSE <<>>)
    IN  [valid |-> Len(errors) = 0, errors |-> errors]

validateConfig(e) ==
    LET config == getConfig(e)
        errors ==
            (IF ~Truthy(config.github.clientId)
             THEN <<"Missing GitHub Client ID">> ELSE <<>>)
         \o (IF ~Truthy(config.github.clientSecret)
             THEN <<"Missing GitHub Client Secret">> ELSE <<>>)
         \o (IF Len(config.allowedOrigins) = 0
             THEN <<"No allowed origins configured">> ELSE <<>>)
    IN  [valid |-> Len(errors) = 0, errors |-> errors]

\* a callback URL that is project-qualified also when no project is given
getOAuthCallbackUrlQualified(e, project) ==
    LET config == getConfig(e)
    IN  config.api.baseUrl \o config.api.callbackPath \o <<"?project=">>
        \o OrElse(project, <<"create">>)

\* getOAuthCallbackUrl(project), project = Null when the argument is omitted
getOAuthCallbackUrl(e, project) ==
    LET config == getConfig(e)
    IN  IF Truthy(project)
        THEN config.api.baseUrl \o config.api.callbackPath \o <<"?project=">> \o project
        ELSE config.api.baseUrl \o config.api.callbackPath

\* Property names every object literal inherits from Object.prototype; the
\* model keeps two of them.
ObjectPrototypeKeys == {<<"constructor">>, <<"__proto__">>}

\* config.projects[key]: an own property, else an inherited member of
\* Object.prototype (a truthy value that has no frontendUrl), else undefined
ProjectsGet(config, key) ==
    IF key \in DOMAIN config.projects
    THEN [truthy |-> TRUE, frontendUrl |-> config.projects[key].frontendUrl]
    ELSE IF key \in ObjectPrototypeKeys
    THEN [truthy |-> TRUE, frontendUrl |-> Undefined]
    ELSE [truthy |-> FALSE, frontendUrl |-> Undefined]

-----------------------------------------------------------------------------
(* CORS utilities: utils/cors.js *)

Includes(seq, x) == \E i \in 1..Len(seq) : seq[i] = x

\* origin is the request's Origin header, <<>> when there is none
getCorsHeaders(e, origin) ==
    LET config == getConfig(e)
        isAllowedOrigin == Includes(config.allowedOrigins, origin)
    IN  [AllowOrigin |-> IF isAllowedOrigin THEN origin ELSE config.allowedOrigins[1],
         AllowHeaders |-> "Content-Type, Authorization",
         AllowMethods |-> "GET, POST, OPTIONS",
         AllowCredentials |-> "true"]

\* a pre-flight answer without content and without the headers
handlePreflightBare(headers) ==
    [statusCode |-> 204, cors |-> [headers EXCEPT !.AllowOrigin = <<>>],
     kind |-> "preflight"]

handlePreflight(headers) ==
    [statusCode |-> 200, cors |-> headers, kind |-> "preflight"]

getFrontendOrigin(e, project) ==
    LET config == getConfig(e)
        projectConfig == ProjectsGet(config, project)
    IN  IF ~projectConfig.truthy THEN config.projects[<<"create">>].frontendUrl
        ELSE projectConfig.frontendUrl

-----------------------------------------------------------------------------
(* Cookie utilities: utils/cookies.js *)

\* options of a cookie that is sent over plain HTTP and with cross-site requests
getCookieOptionsLoose(e) ==
    [httpOnly |-> TRUE,
     secure |-> FALSE,
     sameSite |-> <<"None">>,
     maxAge |-> CookieMaxAge,
     path |-> <<"/">>,
     domain |-> IF isProduction(e) THEN Undefined ELSE Null]

getCookieOptions(e) ==
    [httpOnly |-> TRUE,
     secure |-> isProduction(e),
     sameSite |-> <<"Lax">>,
     maxAge |-> CookieMaxAge,
     path |-> <<"/">>,
     domain |-> IF isProduction(e) THEN Undefined ELSE Null]

\* a header that carries the value as it is
createCookieHeaderRaw(name, value, options) ==
    name \o <<"=">> \o value
    \o (IF options.httpOnly THEN <<";", " ", "HttpOnly">> ELSE <<>>)
    \o (IF options.secure THEN <<";", " ", "Secure">> ELSE <<>>)
    \o (IF Truthy(options.sameSite)
        THEN <<";", " ", "SameSite", "=">> \o options.sameSite ELSE <<>>)
    \o (IF options.maxAge # 0
        THEN <<";", " ", "Max-Age", "=", ToString(options.maxAge)>> ELSE <<>>)
    \o (IF Truthy(options.path) THEN <<";", " ", "Path", "=">> \o options.path ELSE <<>>)

\* Thrown when encodeURIComponent raises
createCookieHeader(name, value, options) ==
    IF encodeURIComponent(value) = Thrown THEN Thrown ELSE
    name \o <<"=">> \o encodeURIComponent(value)
    \o (IF options.httpOnly THEN <<";", " ", "HttpOnly">> ELSE <<>>)
    \o (IF options.secure THEN <<";", " ", "Secure">> ELSE <<>>)
    \o (IF Truthy(options.sameSite)
        THEN <<";", " ", "SameSite", "=">> \o options.sameSite ELSE <<>>)
    \o (IF options.maxAge # 0
        THEN <<";", " ", "Max-Age", "=", ToString(options.maxAge)>> ELSE <<>>)
    \o (IF Truthy(options.path) THEN <<";", " ", "Path", "=">> \o options.path ELSE <<>>)
    \o (IF Truthy(options.domain)
        THEN <<";", " ", "Domain", "=">> \o options.domain ELSE <<>>)

\* One step of the forEach of parseCookies on [threw, map]: map is the
\* cookies object after the piece is processed, threw is TRUE once
\* decodeURIComponent has raised.
\* const [name, value] = piece.trim().split('=') keeps the first two parts.
ParsePiece(cookies, piece) ==
    LET parts == Split(Trim(piece), "=")
        name == parts[1]
        value == IF Len(parts) >= 2 THEN parts[2] ELSE Undefined
    IN  IF cookies.threw THEN cookies
        ELSE IF Truthy(name) /\ Truthy(value)
        THEN IF decodeURIComponent(value) = Thrown
             THEN [cookies EXCEPT !.threw = TRUE]
             ELSE [cookies EXCEPT !.map =
                      [n \in (DOMAIN cookies.map) \cup {name} |->
                          IF n = name THEN decodeURIComponent(value)
                          ELSE cookies.map[n]]]
        ELSE cookies

RECURSIVE ParsePieces(_, _, _)
ParsePieces(pieces, i, cookies) ==
    IF i > Len(pieces) THEN cookies
    ELSE ParsePieces(pieces, i + 1, ParsePiece(cookies, pieces[i]))

\* cookieHeader is event.headers.cookie, Undefined when the request has none.
\* The result: [threw, map], map a function from names to values.
parseCookies(cookieHeader) ==
    LET header == OrElse(cookieHeader, <<>>)
    IN  ParsePieces(Split(header, ";"), 1, [threw |-> FALSE, map |-> [n \in {} |-> <<>>]])

\* an extraction that raises when the request has no oauth_state cookie
extractStateFromCookiesStrict(cookieHeader) ==
    LET cookies == parseCookies(cookieHeader)
    IN  IF cookies.threw THEN Thrown
        ELSE IF <<"oauth_state">> \in DOMAIN cookies.map
                /\ Truthy(cookies.map[<<"oauth_state">>])
        THEN cookies.map[<<"oauth_state">>]
        ELSE Thrown

\* cookies.oauth_state || null, Thrown when parseCookies raised
extractStateFromCookies(cookieHeader) ==
    LET cookies == parseCookies(cookieHeader)
    IN  IF cookies.threw THEN Thrown
        ELSE IF <<"oauth_state">> \in DOMAIN cookies.map
                /\ Truthy(cookies.map[<<"oauth_state">>])
        THEN cookies.map[<<"oauth_state">>]
        ELSE Null

-----------------------------------------------------------------------------
(* Responses.  Every response is a record of one shape; a field a response *)
(* does not carry holds its None value.                                     *)

NoCors == [AllowOrigin |-> <<>>, AllowHeaders |-> "", AllowMethods |-> "",
           AllowCredentials |-> ""]

NoLocation == [endpoint |-> "", client_id |-> <<>>, redirect_uri |-> <<>>,
               scope |-> <<>>, state |-> <<>>]

NoPayload == [source |-> "", access_token |-> <<>>]

NoFetch == [url |-> "", client_id |-> <<>>, client_secret |-> <<>>, code |-> <<>>,
            redirect_uri |-> <<>>]

BaseResponse ==
    [statusCode |-> 0, kind |-> "", cors |-> NoCors, contentType |-> "",
     cacheControl |-> "", location |-> NoLocation, cookies |-> <<>>,
     details |-> <<>>, message |-> <<>>, errorMessage |-> <<>>,
     payload |-> NoPayload, targetOrigin |-> <<>>]

\* generateErrorHTML(error): the failure document, its <p> text kept
generateErrorHTML(error) ==
    [BaseResponse EXCEPT !.kind = "error_html", !.message = error]

\* a success document whose script posts to any origin
generatePostMessageHTMLStar(accessToken, frontendOrigin) ==
    [BaseResponse EXCEPT
        !.kind = "success_html",
        !.payload = [source |-> "oauth", access_token |-> accessToken],
        !.targetOrigin = <<"*">>]

\* generatePostMessageHTML(accessToken, frontendOrigin): the success document,
\* the message its script posts and the target origin it posts it to kept.
\* '${frontendOrigin}' prints undefined as the text undefined.
generatePostMessageHTML(accessToken, frontendOrigin) ==
    [BaseResponse EXCEPT
        !.kind = "success_html",
        !.payload = [source |-> "oauth", access_token |-> accessToken],
        !.targetOrigin = IF frontendOrigin = Undefined THEN <<"undefined">>
                         ELSE frontendOrigin]

-----------------------------------------------------------------------------
(* Login handler: handlers/oauth-login.js *)

\* crypto.randomBytes(n).toString('hex') for the r-th draw: one word of hex
\* digits; distinct draws give distinct words.
RandomHexFixed(r) == <<"h1">>

RandomHex(r) == <<"h" \o ToString(r)>>

\* the two parts in the other order
stateWithProjectSwapped(state, project) == project \o <<":">> \o state

\* `${state}:${project}`
stateWithProject(state, project) == state \o <<":">> \o project

\* a method test that lets every method through
httpMethodIsAny(httpMethod) == TRUE

\* the negation of httpMethod !== 'GET'
httpMethodIsGet(httpMethod) == httpMethod = "GET"

\* an authorization URL that carries the client secret where the client id
\* belongs
githubAuthUrlSecretAsId(e, swp) ==
    [endpoint |-> "https://github.com/login/oauth/authorize",
     client_id |-> getConfig(e).github.clientSecret,
     redirect_uri |-> getOAuthCallbackUrl(e, Null),
     scope |-> getConfig(e).github.scope,
     state |-> swp]

\* githubAuthUrl: the authorize endpoint and the four search parameters set
githubAuthUrl(e, swp) ==
    [endpoint |-> "https://github.com/login/oauth/authorize",
     client_id |-> getConfig(e).github.clientId,
     redirect_uri |-> getOAuthCallbackUrl(e, Null),
     scope |-> getConfig(e).github.scope,
     state |-> swp]

\* the request: [method, project, origin]; project is Undefined when the query
\* has none; r numbers the random draw
loginHandler(e, req, r) ==
    LET configValidation == validateConfig(e)
        corsHeaders == getCorsHeaders(e, req.origin)
        config == getConfig(e)
        project == IF req.project = Undefined THEN <<"create">> ELSE req.project
        state == RandomHex(r)
        swp == stateWithProject(state, project)
        stateCookie == createCookieHeader(<<"oauth_state">>, swp, getCookieOptions(e))
    IN  IF ~configValidation.valid
        THEN [BaseResponse EXCEPT !.statusCode = 500, !.kind = "config_error_json",
                                  !.contentType = "application/json",
                                  !.message = <<"Server configuration error">>,
                                  !.details = configValidation.errors]
        ELSE IF req.method = "OPTIONS"
        THEN [BaseResponse EXCEPT !.statusCode = handlePreflight(corsHeaders).statusCode,
                                  !.kind = "preflight",
                                  !.cors = handlePreflight(corsHeaders).cors]
        ELSE IF ~httpMethodIsGet(req.method)
        THEN [BaseResponse EXCEPT !.statusCode = 405, !.kind = "method_not_allowed",
                                  !.cors = corsHeaders,
                                  !.contentType = "application/json",
                                  !.message = <<"Method not allowed">>]
        ELSE IF stateCookie = Thrown
        THEN [BaseResponse EXCEPT !.statusCode = 500, !.kind = "internal_error_json",
                                  !.cors = corsHeaders,
                                  !.contentType = "application/json",
                                  !.message = <<"Internal server error">>,
                                  !.errorMessage = <<"URI malformed">>]
        ELSE [BaseResponse EXCEPT !.statusCode = 302, !.kind = "redirect",
                                  !.cors = corsHeaders,
                                  !.location = githubAuthUrl(e, swp),
                                  !.cookies = <<stateCookie>>]

-----------------------------------------------------------------------------
(* Callback handler: handlers/oauth-callback.js *)

\* const [, project = 'create'] = state.split(':')
projectOfState(state) ==
    LET parts == Split(state, ":")
    IN  IF Len(parts) >= 2 THEN parts[2] ELSE <<"create">>

\* a check that lets a request without cookie through
stateValidAbsentOk(storedState, state) ==
    ~(Truthy(storedState) /\ storedState # state)

\* a check that compares the project parts only
stateValidProjectOnly(storedState, state) ==
    Truthy(storedState) /\ projectOfState(storedState) = projectOfState(state)

\* the negation of (!storedState || storedState !== state)
stateValid(storedState, state) ==
    ~(~Truthy(storedState) \/ storedState # state)

\* a handler that looks at the provider's error parameter only after the
\* CSRF check
callbackBeforeFetchErrorLast(e, req) ==
    LET configValidation == validateConfig(e)
        corsHeaders == getCorsHeaders(e, req.origin)
        config == getConfig(e)
        storedState == extractStateFromCookies(req.cookie)
        frontendOrigin == getFrontendOrigin(e, projectOfState(req.state))
        html(status, page) ==
            [page EXCEPT !.statusCode = status, !.cors = corsHeaders,
                         !.contentType = "text/html"]
        end(resp) == [terminal |-> TRUE, response |-> resp, fetch |-> NoFetch,
                      frontendOrigin |-> <<>>]
    IN  IF ~configValidation.valid
        THEN end([generateErrorHTML(<<"Server configuration error">>) EXCEPT
                    !.statusCode = 500, !.contentType = "text/html"])
        ELSE IF ~Truthy(req.code) \/ ~Truthy(req.state)
        THEN IF Truthy(req.error)
             THEN end(html(400, generateErrorHTML(<<"GitHub error: ">> \o req.error)))
             ELSE end(html(400, generateErrorHTML(
                        <<"Missing authorization code or state">>)))
        ELSE IF storedState = Thrown
        THEN end(html(500, generateErrorHTML(<<"Internal server error">>)))
        ELSE IF ~stateValid(storedState, req.state)
        THEN end(html(400, generateErrorHTML(
                    <<"Invalid state parameter - possible CSRF attack">>)))
        ELSE [terminal |-> FALSE, response |-> BaseResponse,
              fetch |-> [url |-> "https://github.com/login/oauth/access_token",
                         client_id |-> config.github.clientId,
                         client_secret |-> config.github.clientSecret,
                         code |-> req.code,
                         redirect_uri |-> config.api.baseUrl \o config.api.callbackPath],
              frontendOrigin |-> frontendOrigin]

\* The handler up to its await of fetch.  The request: [method, code, state,
\* error, cookie, origin], a query parameter or the Cookie header Undefined
\* when the request has none; the handler never reads the method.  Either the terminal response, or the token request.
callbackBeforeFetch(e, req) ==
    LET configValidation == validateConfig(e)
        corsHeaders == getCorsHeaders(e, req.origin)
        config == getConfig(e)
        storedState == extractStateFromCookies(req.cookie)
        project == projectOfState(req.state)
        frontendOrigin == getFrontendOrigin(e, project)
        html(status, page) ==
            [page EXCEPT !.statusCode = status, !.cors = corsHeaders,
                         !.contentType = "text/html"]
        end(resp) == [terminal |-> TRUE, response |-> resp, fetch |-> NoFetch,
                      frontendOrigin |-> <<>>]
    IN  IF ~configValidation.valid
        THEN end([generateErrorHTML(<<"Server configuration error">>) EXCEPT
                    !.statusCode = 500, !.contentType = "text/html"])
        ELSE IF Truthy(req.error)
        THEN end(html(400, generateErrorHTML(<<"GitHub error: ">> \o req.error)))
        ELSE IF ~Truthy(req.code) \/ ~Truthy(req.state)
        THEN end(html(400, generateErrorHTML(<<"Missing authorization code or state">>)))
        ELSE IF storedState = Thrown
        THEN end(html(500, generateErrorHTML(<<"Internal server error">>)))
        ELSE IF ~stateValid(storedState, req.state)
        THEN end(html(400, generateErrorHTML(
                    <<"Invalid state parameter - possible CSRF attack">>)))
        ELSE [terminal |-> FALSE, response |-> BaseResponse,
              fetch |-> [url |-> "https://github.com/login/oauth/access_token",
                         client_id |-> config.github.clientId,
                         client_secret |-> config.github.clientSecret,
                         code |-> req.code,
                         redirect_uri |-> config.api.baseUrl \o config.api.callbackPath],
              frontendOrigin |-> frontendOrigin]

\* a delivery response that makes the browser drop the state cookie
deliveryResponseClearingCookie(corsHeaders, body) ==
    [body EXCEPT !.statusCode = 200, !.cors = corsHeaders, !.contentType = "text/html",
                 !.cacheControl = "no-store, no-cache, must-revalidate",
                 !.cookies = << <<"oauth_state", "=", ";", " ", "Max-Age", "=", "0">> >>]

\* a delivery response that also stores the token in a cookie
deliveryResponseWithCookie(corsHeaders, body) ==
    [body EXCEPT !.statusCode = 200, !.cors = corsHeaders, !.contentType = "text/html",
                 !.cacheControl = "no-store, no-cache, must-revalidate",
                 !.cookies = <<createCookieHeader(<<"access_token">>,
                                                  body.payload.access_token,
                                                  [httpOnly |-> TRUE, secure |-> TRUE,
                                                   sameSite |-> <<"Lax">>,
                                                   maxAge |-> CookieMaxAge,
                                                   path |-> <<"/">>,
                                                   domain |-> Undefined])>>]

\* a delivery response without Cache-Control header
deliveryResponseCacheable(corsHeaders, body) ==
    [body EXCEPT !.statusCode = 200, !.cors = corsHeaders, !.contentType = "text/html"]

\* the response that delivers the token: status, headers, body
deliveryResponse(corsHeaders, body) ==
    [body EXCEPT !.statusCode = 200, !.cors = corsHeaders, !.contentType = "text/html",
                 !.cacheControl = "no-store, no-cache, must-revalidate"]

\* a handler that sends its failure documents with status 200
callbackAfterFetchAlways200(e, req, frontendOrigin, reply) ==
    LET corsHeaders == getCorsHeaders(e, req.origin)
        html(status, page) ==
            [page EXCEPT !.statusCode = 200, !.cors = corsHeaders,
                         !.contentType = "text/html"]
    IN  IF ~reply.ok
        THEN html(500, generateErrorHTML(<<"Internal server error">>))
        ELSE IF Truthy(reply.error)
        THEN html(400, generateErrorHTML(
                 <<"Failed to obtain access token: ">>
                 \o OrElse(reply.error_description, reply.error)))
        ELSE IF ~Truthy(reply.access_token)
        THEN html(400, generateErrorHTML(<<"No access token received from GitHub">>))
        ELSE deliveryResponse(corsHeaders,
                              generatePostMessageHTML(reply.access_token, frontendOrigin))

\* a handler that looks for the access_token before it looks for an error
callbackAfterFetchTokenFirst(e, req, frontendOrigin, reply) ==
    LET corsHeaders == getCorsHeaders(e, req.origin)
        html(status, page) ==
            [page EXCEPT !.statusCode = status, !.cors = corsHeaders,
                         !.contentType = "text/html"]
    IN  IF ~reply.ok
        THEN html(500, generateErrorHTML(<<"Internal server error">>))
        ELSE IF Truthy(reply.access_token)
        THEN deliveryResponse(corsHeaders,
                              generatePostMessageHTML(reply.access_token, frontendOrigin))
        ELSE IF Truthy(reply.error)
        THEN html(400, generateErrorHTML(
                 <<"Failed to obtain access token: ">>
                 \o OrElse(reply.error_description, reply.error)))
        ELSE html(400, generateErrorHTML(<<"No access token received from GitHub">>))

\* The handler from the answer of the token endpoint on.  The reply:
\* [ok, error, error_description, access_token]; ok is FALSE when fetch
\* rejects or the body is no JSON (tokenResponse.json() raises).
callbackAfterFetch(e, req, frontendOrigin, reply) ==
    LET corsHeaders == getCorsHeaders(e, req.origin)
        html(status, page) ==
            [page EXCEPT !.statusCode = status, !.cors = corsHeaders,
                         !.contentType = "text/html"]
    IN  IF ~reply.ok
        THEN html(500, generateErrorHTML(<<"Internal server error">>))
        ELSE IF Truthy(reply.error)
        THEN html(400, generateErrorHTML(
                 <<"Failed to obtain access token: ">>
                 \o OrElse(reply.error_description, reply.error)))
        ELSE IF ~Truthy(reply.access_token)
        THEN html(400, generateErrorHTML(<<"No access token received from GitHub">>))
        ELSE deliveryResponse(corsHeaders,
                              generatePostMessageHTML(reply.access_token, frontendOrigin))

\* a handler that accepts GET only, as the Login does
callbackHandlerGetOnly(e, req, reply) ==
    LET pre == callbackBeforeFetch(e, req)
    IN  IF validateConfig(e).valid /\ req.method = "OPTIONS"
        THEN [response |-> [BaseResponse EXCEPT !.statusCode = 200, !.kind = "preflight",
                                                !.cors = getCorsHeaders(e, req.origin)],
              exchanged |-> FALSE, fetch |-> NoFetch]
        ELSE IF validateConfig(e).valid /\ req.method # "GET"
        THEN [response |-> [BaseResponse EXCEPT !.statusCode = 405,
                                                !.kind = "method_not_allowed",
                                                !.cors = getCorsHeaders(e, req.origin)],
              exchanged |-> FALSE, fetch |-> NoFetch]
        ELSE IF pre.terminal
        THEN [response |-> pre.response, exchanged |-> FALSE, fetch |-> NoFetch]
        ELSE [response |-> callbackAfterFetch(e, req, pre.frontendOrigin, reply),
              exchanged |-> TRUE, fetch |-> pre.fetch]

\* The whole invocation: the response, and the token request if one was made
callbackHandler(e, req, reply) ==
    LET pre == callbackBeforeFetch(e, req)
    IN  IF pre.terminal
        THEN [response |-> pre.response, exchanged |-> FALSE, fetch |-> NoFetch]
        ELSE [response |-> callbackAfterFetch(e, req, pre.frontendOrigin, reply),
              exchanged |-> TRUE, fetch |-> pre.fetch]

-----------------------------------------------------------------------------
(* The browsers.  A browser keeps the oauth_state cookie a Login response   *)
(* set, until its Max-Age has elapsed, and sends it with its callbacks.     *)

Browsers == {"b1", "b2"}

\* ttl: the seconds the cookie has left, -1 for a cookie without Max-Age
NoCookie == [name |-> <<>>, value |-> <<>>, ttl |-> 0]

\* the text after the first sep of s; Undefined when s has no sep
RECURSIVE AfterFirst(_, _)
AfterFirst(s, sep) ==
    IF s = <<>> THEN Undefined
    ELSE IF Head(s) = sep THEN Tail(s)
    ELSE AfterFirst(Tail(s), sep)

\* the text before the first sep of s
BeforeFirst(s, sep) == Split(s, sep)[1]

\* the number a Max-Age attribute value denotes, -1 when the model has none
SecondsOf(word) ==
    IF word = <<ToString(CookieMaxAge)>> THEN CookieMaxAge
    ELSE IF word = <<"0">> THEN 0 ELSE -1

\* the Max-Age attribute of a Set-Cookie header in seconds, -1 when it has none
MaxAgeOf(header) ==
    LET pieces == Split(header, ";")
        hits == {i \in 2..Len(pieces) : BeforeFirst(Trim(pieces[i]), "=") = <<"Max-Age">>}
    IN  IF hits = {} THEN -1
        ELSE SecondsOf(AfterFirst(Trim(pieces[CHOOSE i \in hits : TRUE]), "="))

\* what a browser stores on receiving a Set-Cookie header
BrowserStore(header) ==
    LET pair == Trim(Split(header, ";")[1])
    IN  [name |-> BeforeFirst(pair, "="),
         value |-> AfterFirst(pair, "="),
         ttl |-> MaxAgeOf(header)]

CookieLive(c) == c # NoCookie /\ c.ttl # 0

\* the cookie after d more seconds
Aged(c, d) ==
    IF c.ttl <= 0 THEN c
    ELSE [c EXCEPT !.ttl = IF c.ttl > d THEN c.ttl - d ELSE 0]

\* the Cookie header a browser sends, Undefined when it has no live cookie
BrowserCookieHeader(c) ==
    IF CookieLive(c) THEN c.name \o <<"=">> \o c.value ELSE Undefined

-----------------------------------------------------------------------------
(* Bounds and the inputs drawn *)

\* logins that reach the random draw
MaxLogins == 2

\* the clock advances by half a cookie lifetime
TickStep == CookieMaxAge \div 2

ValidEnv(nodeEnv) ==
    [NODE_ENV |-> nodeEnv,
     GITHUB_CLIENT_ID |-> <<"client-id">>, GH_CLIENT_ID |-> Undefined,
     GITHUB_CLIENT_SECRET |-> <<"client-secret">>, GH_CLIENT_SECRET |-> Undefined,
     OAUTH_API_URL |-> Undefined, ADDITIONAL_ORIGINS |-> Undefined]

\* the environments of the request-level specification: each credential set
\* or missing, in production or not, and the base URL set by the operator
Envs ==
    {[ValidEnv(n) EXCEPT !.GITHUB_CLIENT_ID = id, !.GITHUB_CLIENT_SECRET = secret] :
        n \in {"production", "development"},
        id \in {Undefined, <<"client-id">>},
        secret \in {Undefined, <<"client-secret">>}}
    \cup {[ValidEnv(n) EXCEPT !.OAUTH_API_URL = <<"https://oauth.example.com">>] :
             n \in {"production", "development"}}

\* project query parameters: none, the registered ids, an unknown id, the
\* empty string, a name Object.prototype has, ids holding a separator or a
\* character the cookie codec escapes, an id holding a lone surrogate
Projects ==
    {Undefined, <<"create">>, <<"prompts">>, <<"other">>, <<>>, <<"constructor">>,
     <<"prompts", ":", "x">>, <<"a", "=", "b">>, <<"50", "%", ";", " ", "x">>,
     <<"x", LoneSurrogate>>}

\* the project parameters the browsers of the flow specification use
FlowProjects == {<<"create">>, <<"prompts">>}

Codes == {Undefined, <<"abc">>}

ProviderErrors == {Undefined, <<"access_denied">>}

\* Origin headers: none, one allowed outside production only, one never allowed
Origins == {<<>>, <<"http://localhost:5174">>, <<"https://evil.example">>}

CallbackOrigins == {<<>>, <<"https://evil.example">>}

Methods == {"GET", "OPTIONS", "POST", "HEAD"}

\* the methods of the requests to /oauth/callback
CallbackMethods == {"GET", "OPTIONS", "POST"}

Reply(ok, error, description, token) ==
    [ok |-> ok, error |-> error, error_description |-> description,
     access_token |-> token]

\* answers of the token endpoint: a token, an error with and without
\* description, an error beside a token, no token, and a failed call
Replies ==
    {Reply(TRUE, Undefined, Undefined, <<"tok123">>),
     Reply(TRUE, Undefined, Undefined, <<"tok456">>),
     Reply(TRUE, <<"bad_verification_code">>, <<"The code is incorrect">>, Undefined),
     Reply(TRUE, <<"bad_verification_code">>, Undefined, Undefined),
     Reply(TRUE, <<"bad_verification_code">>, Undefined, <<"tok123">>),
     Reply(TRUE, Undefined, Undefined, Undefined),
     Reply(FALSE, Undefined, Undefined, Undefined)}

FlowReplies ==
    {Reply(TRUE, Undefined, Undefined, <<"tok123">>),
     Reply(TRUE, <<"bad_verification_code">>, Undefined, Undefined)}

NoReply == Reply(FALSE, Undefined, Undefined, Undefined)

\* state tokens no Login issued: without separator, with an empty project,
\* with an unknown project, with a name Object.prototype has
ForgedStates ==
    {<<"f0">>, <<"f0", ":">>, <<"f0", ":", "other">>, <<"f0", ":", "constructor">>,
     <<"f0", ":", "prompts">>, <<"f0", ":", "create">>, <<"f0", ":", "prompts", ":", "x">>,
     <<"f0", ":", "a", "=", "b">>}

\* Cookie headers an arbitrary client may send beside the state s: none, an
\* empty one, the cookie a Login would set for s, the same among other
\* cookies, s unescaped, a value cut or extended by one character, a
\* malformed escape, a name without value, another state's cookie
RawCookies(s) ==
    LET name == <<"oauth_state", "=">>
        enc == encodeURIComponent(s)
    IN  {Undefined, <<>>,
         name \o enc,
         <<"theme", "=", "dark", ";", " ">> \o name \o enc,
         name \o s,
         name \o enc \o <<"=">>,
         name \o enc \o <<"=", "x">>,
         name \o enc \o <<"x">>,
         name \o <<"%">>,
         <<"oauth_state">>,
         name,
         name \o encodeURIComponent(<<"f1", ":", "create">>),
         <<"theme", "=", "dark">>,
         <<"flag", ";", " ", "theme", "=", "dark", ";">>}

-----------------------------------------------------------------------------
(* State *)

VARIABLES
    env,        \* process.env, fixed for the life of the process
    jar,        \* each browser's oauth_state cookie
    issued,     \* per browser, the Login responses it received, in order: the
                \* project parameter of the request and the state token issued
    delivered,  \* per browser, the state tokens whose callback ended in a delivery
    nextRand,   \* the number of the next random draw
    done,       \* the last invocation: its request, its response, its token request
    pending     \* per browser, its callback invocation that awaits the token
                \* endpoint: the locals the handler holds across the await

vars == <<env, jar, issued, delivered, nextRand, done, pending>>

NoLoginReq == [method |-> "", project |-> Undefined, origin |-> <<>>]

NoCallbackReq == [method |-> "", code |-> Undefined, state |-> Undefined, error |-> Undefined,
                  cookie |-> Undefined, origin |-> <<>>]

\* client: a browser, or "raw" for any other HTTP client.  exchanged: the
\* invocation sent the token request fetch; reply: the answer to it.
NoInvocation ==
    [handler |-> "none", client |-> "raw", login |-> NoLoginReq,
     callback |-> NoCallbackReq, reply |-> NoReply, response |-> BaseResponse,
     exchanged |-> FALSE, fetch |-> NoFetch]

\* sent: the token requests the invocation has issued
NoPending == [busy |-> FALSE, callback |-> NoCallbackReq, fetch |-> NoFetch,
              frontendOrigin |-> <<>>, sent |-> 0]

InitWorld ==
    /\ pending = [b \in Browsers |-> NoPending]
    /\ jar = [b \in Browsers |-> NoCookie]
    /\ issued = [b \in Browsers |-> <<>>]
    /\ delivered = [b \in Browsers |-> {}]
    /\ nextRand = 1
    /\ done = NoInvocation

Init ==
    /\ env = ValidEnv("production")
    /\ InitWorld

InitReq ==
    /\ env \in Envs
    /\ InitWorld

Range(seq) == {seq[i] : i \in 1..Len(seq)}

IssuedStates(b) == {i.state : i \in Range(issued[b])}

AllIssued == UNION {IssuedStates(b) : b \in Browsers}

\* the browser takes the cookies of a response
ReceiveCookies(c, cookies) ==
    IF cookies = <<>> THEN c ELSE BrowserStore(cookies[Len(cookies)])

\* GET /oauth/login in browser b
BrowserLogin(b, project) ==
    LET req == [method |-> "GET", project |-> project, origin |-> <<>>]
        resp == loginHandler(env, req, nextRand)
    IN  /\ nextRand <= MaxLogins
        /\ done' = [NoInvocation EXCEPT !.handler = "login", !.client = b,
                                        !.login = req, !.response = resp]
        /\ jar' = [jar EXCEPT ![b] = ReceiveCookies(jar[b], resp.cookies)]
        /\ issued' = IF resp.statusCode = 302
                     THEN [issued EXCEPT ![b] = Append(@, [project |-> project,
                                                          state |-> resp.location.state])]
                     ELSE issued
        /\ nextRand' = IF resp.statusCode = 302 THEN nextRand + 1 ELSE nextRand
        /\ UNCHANGED <<env, delivered, pending>>

\* /oauth/callback in browser b; the token endpoint, if the handler calls
\* it, answers with one of replies
BrowserCallback(b, code, state, error, replies) ==
    LET req == [method |-> "GET", code |-> code, state |-> state, error |-> error,
                cookie |-> BrowserCookieHeader(jar[b]), origin |-> <<>>]
        asked == ~callbackBeforeFetch(env, req).terminal
    IN  \E reply \in IF asked THEN replies ELSE {NoReply} :
           LET out == callbackHandler(env, req, reply)
           IN  /\ done' = [NoInvocation EXCEPT
                             !.handler = "callback", !.client = b, !.callback = req,
                             !.reply = reply,
                             !.response = out.response, !.exchanged = out.exchanged,
                             !.fetch = out.fetch]
               /\ delivered' = IF out.response.kind = "success_html"
                               THEN [delivered EXCEPT ![b] = @ \cup {state}]
                               ELSE delivered
               /\ jar' = [jar EXCEPT ![b] = ReceiveCookies(jar[b], out.response.cookies)]
               /\ UNCHANGED <<env, issued, nextRand, pending>>

\* TickStep seconds pass while some browser holds a live cookie
Tick ==
    /\ \E b \in Browsers : jar[b].ttl > 0
    /\ jar' = [b \in Browsers |-> Aged(jar[b], TickStep)]
    /\ UNCHANGED <<env, issued, delivered, nextRand, done, pending>>

\* the state parameters a browser is sent to the callback with
FlowStates == AllIssued \cup {<<"f0", ":", "create">>}

Next ==
    \/ \E b \in Browsers, project \in FlowProjects : BrowserLogin(b, project)
    \/ \E b \in Browsers, state \in FlowStates :
          BrowserCallback(b, <<"abc">>, state, Undefined, FlowReplies)
    \/ Tick

Spec == Init /\ [][Next]_vars

-----------------------------------------------------------------------------
(* Single requests of an arbitrary HTTP client.  The handlers keep nothing *)
(* between invocations, so one invocation on a fresh process shows what a   *)
(* request does.                                                            *)

\* any request to /oauth/login; r numbers the random draw
RawLogin(method, project, origin, r) ==
    LET req == [method |-> method, project |-> project, origin |-> origin]
    IN  /\ done = NoInvocation
        /\ done' = [NoInvocation EXCEPT !.handler = "login", !.login = req,
                                        !.response = loginHandler(env, req, r)]
        /\ UNCHANGED <<env, jar, issued, delivered, nextRand, pending>>

\* any request to /oauth/callback; the token endpoint, if the handler calls
\* it, answers with one of replies
RawCallback(method, code, state, error, cookie, origin, replies) ==
    LET req == [method |-> method, code |-> code, state |-> state, error |-> error,
                cookie |-> cookie, origin |-> origin]
        asked == ~callbackBeforeFetch(env, req).terminal
    IN  /\ done = NoInvocation
        /\ \E reply \in IF asked THEN replies ELSE {NoReply} :
           LET out == callbackHandler(env, req, reply)
           IN  /\ done' = [NoInvocation EXCEPT
                             !.handler = "callback", !.callback = req,
                             !.reply = reply,
                             !.response = out.response, !.exchanged = out.exchanged,
                             !.fetch = out.fetch]
               /\ UNCHANGED <<env, jar, issued, delivered, nextRand, pending>>

RawStates == ForgedStates \cup {Undefined, <<>>}

NextReq ==
    \/ \E method \in Methods, project \in Projects, origin \in Origins,
          r \in 1..MaxLogins : RawLogin(method, project, origin, r)
    \/ \E method \in CallbackMethods, code \in Codes, state \in RawStates,
          error \in ProviderErrors, origin \in CallbackOrigins :
          \E cookie \in RawCookies(IF Truthy(state) THEN state
                                   ELSE <<"f0", ":", "create">>) :
             RawCallback(method, code, state, error, cookie, origin, Replies)

SpecReq == InitReq /\ [][NextReq]_vars

-----------------------------------------------------------------------------
(* Concurrent invocations.  A handler runs without interruption except at  *)
(* an await: the callback handler gives way at its await of fetch, and     *)
(* other invocations run until the token endpoint has answered.             *)

\* a continuation that takes the frontend origin from the invocation that
\* ended last, as a module-level variable would hold it
ResumeShared(inv, reply) ==
    [finished |-> TRUE, resend |-> FALSE,
     response |-> callbackAfterFetch(env, inv.callback,
                     IF done.handler = "callback" /\ done.callback.state # Undefined
                     THEN getFrontendOrigin(env, projectOfState(done.callback.state))
                     ELSE inv.frontendOrigin,
                     reply)]

\* a continuation that sends the token request once more after a failed call
ResumeRetrying(inv, reply) ==
    IF ~reply.ok /\ inv.sent < 2
    THEN [finished |-> FALSE, resend |-> TRUE, response |-> BaseResponse]
    ELSE [finished |-> TRUE, resend |-> FALSE,
          response |-> callbackAfterFetch(env, inv.callback, inv.frontendOrigin, reply)]

\* a continuation that does not come to a return
ResumeWaiting(inv, reply) ==
    [finished |-> FALSE, resend |-> FALSE, response |-> BaseResponse]

\* the handler after its await: it runs to its return on whatever the token
\* endpoint answered, with the locals it held, and sends no further request
Resume(inv, reply) ==
    [finished |-> TRUE, resend |-> FALSE,
     response |-> callbackAfterFetch(env, inv.callback, inv.frontendOrigin, reply)]

\* browser b requests /oauth/callback; the handler runs to a terminal
\* response or to its await of fetch
CallbackStart(b, code, state) ==
    LET req == [method |-> "GET", code |-> code, state |-> state, error |-> Undefined,
                cookie |-> BrowserCookieHeader(jar[b]), origin |-> <<>>]
        pre == callbackBeforeFetch(env, req)
    IN  /\ ~pending[b].busy
        /\ done' = IF pre.terminal
                   THEN [NoInvocation EXCEPT !.handler = "callback", !.client = b,
                                             !.callback = req, !.response = pre.response]
                   ELSE done
        /\ pending' = IF pre.terminal THEN pending
                      ELSE [pending EXCEPT ![b] =
                              [busy |-> TRUE, callback |-> req, fetch |-> pre.fetch,
                               frontendOrigin |-> pre.frontendOrigin, sent |-> 1]]
        /\ jar' = IF pre.terminal
                  THEN [jar EXCEPT ![b] = ReceiveCookies(jar[b], pre.response.cookies)]
                  ELSE jar
        /\ UNCHANGED <<env, issued, delivered, nextRand>>

\* the token endpoint answers the request of browser b's invocation, or the
\* call fails; the handler resumes
ProviderAnswers(b, reply) ==
    LET inv == pending[b]
        out == Resume(inv, reply)
    IN  /\ inv.busy
        /\ done' = IF out.finished
                   THEN [NoInvocation EXCEPT
                           !.handler = "callback", !.client = b, !.callback = inv.callback,
                           !.reply = reply, !.response = out.response,
                           !.exchanged = TRUE, !.fetch = inv.fetch]
                   ELSE done
        /\ pending' = IF out.finished THEN [pending EXCEPT ![b] = NoPending]
                      ELSE [pending EXCEPT ![b].sent = IF out.resend THEN @ + 1 ELSE @]
        /\ delivered' = IF out.finished /\ out.response.kind = "success_html"
                        THEN [delivered EXCEPT ![b] = @ \cup {inv.callback.state}]
                        ELSE delivered
        /\ jar' = IF out.finished
                  THEN [jar EXCEPT ![b] = ReceiveCookies(jar[b], out.response.cookies)]
                  ELSE jar
        /\ UNCHANGED <<env, issued, nextRand>>

\* answers of the token endpoint to concurrent invocations: a token, an
\* error, a failed call
ConcReplies ==
    {Reply(TRUE, Undefined, Undefined, <<"tok123">>),
     Reply(TRUE, <<"bad_verification_code">>, Undefined, Undefined),
     Reply(FALSE, Undefined, Undefined, Undefined)}

NextConc ==
    \/ \E b \in Browsers, project \in FlowProjects : BrowserLogin(b, project)
    \/ \E b \in Browsers, state \in AllIssued : CallbackStart(b, <<"abc">>, state)
    \/ \E b \in Browsers, reply \in ConcReplies : ProviderAnswers(b, reply)

SpecConc == Init /\ [][NextConc]_vars

\* every call of the token endpoint resolves or rejects in the end
SpecConcFair ==
    /\ SpecConc
    /\ \A b \in Browsers : WF_vars(\E reply \in ConcReplies : ProviderAnswers(b, reply))

-----------------------------------------------------------------------------
(* Vocabulary of the properties *)

IsLogin == done.handler = "login"

IsCallback == done.handler = "callback"

\* a callback that got past the configuration, provider-error and
\* parameter-presence checks
ReachedCsrfCheck ==
    /\ IsCallback
    /\ validateConfig(env).valid
    /\ ~Truthy(done.callback.error)
    /\ Truthy(done.callback.code)
    /\ Truthy(done.callback.state)

CsrfFailureDocument(resp) ==
    /\ resp.statusCode = 400
    /\ resp.kind = "error_html"
    /\ resp.message = <<"Invalid state parameter - possible CSRF attack">>

DeliversToken(resp) == resp.kind = "success_html"

\* no token anywhere in a response
TokenFree(resp) ==
    /\ resp.payload = NoPayload
    /\ resp.targetOrigin = <<>>
    /\ resp.cookies = <<>>
    /\ resp.location = NoLocation

\* The value of the cookie called name in a Cookie header as the wire format
\* has it: the header split on ";", each piece trimmed and split at its first
\* "=", the value percent-decoded.  Undefined when the header has no such
\* cookie or its value does not decode.
RECURSIVE WireCookieFrom(_, _, _)
WireCookieFrom(pieces, i, name) ==
    IF i = 0 THEN Undefined
    ELSE LET pair == Trim(pieces[i])
         IN  IF BeforeFirst(pair, "=") = name /\ AfterFirst(pair, "=") # Undefined
             THEN IF decodeURIComponent(AfterFirst(pair, "=")) = Thrown THEN Undefined
                  ELSE decodeURIComponent(AfterFirst(pair, "="))
             ELSE WireCookieFrom(pieces, i - 1, name)

WireCookie(header, name) ==
    IF header = Undefined THEN Undefined
    ELSE WireCookieFrom(Split(header, ";"), Len(Split(header, ";")), name)

RegisteredOrigins == {getConfig(env).projects[p].frontendUrl : p \in DOMAIN getConfig(env).projects}

DefaultOrigin == getConfig(env).projects[<<"create">>].frontendUrl

\* the browser of the last invocation sent a callback without cookie although
\* it holds one: the cookie's Max-Age had elapsed
SentAfterExpiry ==
    /\ IsCallback
    /\ done.client \in Browsers
    /\ done.callback.cookie = Undefined
    /\ jar[done.client] # NoCookie

-----------------------------------------------------------------------------
(* C1..C10 *)

\* C1: the callback issues the token request only if the request carries an
\* oauth_state cookie whose value is character for character the state
\* parameter; a callback that reached the CSRF check with the cookie absent or
\* different ends in the CSRF failure document without token request.
C1_ExchangeOnlyOnIdenticalCookie ==
    /\ IsCallback /\ done.exchanged
       => WireCookie(done.callback.cookie, <<"oauth_state">>) = done.callback.state
    /\ ReachedCsrfCheck
       /\ WireCookie(done.callback.cookie, <<"oauth_state">>) # done.callback.state
       /\ extractStateFromCookies(done.callback.cookie) # Thrown
       => CsrfFailureDocument(done.response) /\ ~done.exchanged

\* C2: a callback response delivers a token only if in that invocation the
\* configuration was valid, the request had no error parameter, code and
\* state were present, the cookie equalled the state, and the token endpoint
\* answered with an access_token and no error; every other callback response
\* is a failure document without token.
C2_FailClosed ==
    IsCallback =>
       IF /\ ReachedCsrfCheck
          /\ WireCookie(done.callback.cookie, <<"oauth_state">>) = done.callback.state
          /\ done.exchanged /\ done.reply.ok
          /\ ~Truthy(done.reply.error) /\ Truthy(done.reply.access_token)
       THEN TRUE
       ELSE /\ done.response.kind = "error_html"
            /\ TokenFree(done.response)

\* the other browsers
Others(b) == Browsers \ {b}

\* C3: a browser's cookie being set by Login responses to that browser only,
\* a callback from a browser issues the token request only if its state
\* parameter is a state token a Login response gave that same browser, and
\* never on a state token given to another browser.
C3_CsrfBinding ==
    IsCallback /\ done.client \in Browsers /\ done.exchanged
    => /\ done.callback.state \in IssuedStates(done.client)
       /\ \A o \in Others(done.client) : done.callback.state \notin IssuedStates(o)

\* a callback passed validation in one browser while the other browser holds
\* a live cookie of its own Login
C3_Witness ==
    /\ IsCallback /\ done.client \in Browsers /\ done.exchanged
    /\ \E o \in Others(done.client) : issued[o] # <<>> /\ CookieLive(jar[o])

\* the last Login response browser b received; b has received one
LastIssued(b) == issued[b][Len(issued[b])]

\* the callback of browser b that completes the flow its last Login began:
\* the state that Login echoed, the cookie it set, a code
CompletesLastLogin(b) ==
    /\ IsCallback /\ done.client = b
    /\ issued[b] # <<>>
    /\ done.callback.state = LastIssued(b).state
    /\ done.callback.cookie # Undefined
    /\ Truthy(done.callback.code)
    /\ ~Truthy(done.callback.error)

TokenGranted(reply) ==
    reply.ok /\ ~Truthy(reply.error) /\ Truthy(reply.access_token)

\* C4: a Login with a registered project p followed by the callback with the
\* state and the cookie of that Login and a code reaches the token endpoint,
\* and when the endpoint grants token t the response is a 200 whose script
\* posts {source: 'oauth', access_token: t} to p's frontend origin.
C4_EndToEnd ==
    \A b \in Browsers :
       CompletesLastLogin(b) /\ LastIssued(b).project \in DOMAIN getConfig(env).projects
       => /\ done.exchanged
          /\ TokenGranted(done.reply)
             => /\ done.response.statusCode = 200
                /\ done.response.kind = "success_html"
                /\ done.response.payload =
                      [source |-> "oauth", access_token |-> done.reply.access_token]
                /\ done.response.targetOrigin =
                      getConfig(env).projects[LastIssued(b).project].frontendUrl

\* the flow completed for project prompts, after another Login for create
C4_Witness ==
    \E b \in Browsers :
       /\ CompletesLastLogin(b)
       /\ LastIssued(b).project = <<"prompts">>
       /\ TokenGranted(done.reply)
       /\ done.response.targetOrigin = <<"https://prompts.rbios.net">>
       /\ \E o \in Browsers : issued[o] # <<>> /\ issued[o][1].project = <<"create">>

\* browser b received a Login response after the one that issued state
Superseded(b, state) ==
    \E i \in 1..(Len(issued[b]) - 1) : issued[b][i].state = state

\* C5: once a later Login response has reached the browser, a callback
\* carrying the state token of an earlier Login ends in the CSRF failure
\* document and issues no token request.
C5_RetryInvalidatesOldToken ==
    \A b \in Browsers :
       /\ ReachedCsrfCheck /\ done.client = b
       /\ Superseded(b, done.callback.state)
       => CsrfFailureDocument(done.response) /\ ~done.exchanged

\* an earlier token was refused while the cookie of the later Login was live
C5_Witness ==
    \E b \in Browsers :
       /\ ReachedCsrfCheck /\ done.client = b
       /\ Superseded(b, done.callback.state)
       /\ done.callback.cookie # Undefined
       /\ CsrfFailureDocument(done.response)

\* C6: once the cookie's Max-Age has elapsed and the browser sends it no
\* more, a callback replaying a state whose callback had succeeded ends in the
\* CSRF failure document and issues no token request.
C6_NoReplayAfterExpiry ==
    /\ SentAfterExpiry /\ ReachedCsrfCheck
    /\ done.callback.state \in delivered[done.client]
    => CsrfFailureDocument(done.response) /\ ~done.exchanged

\* a state that had succeeded was replayed after the cookie's 600 seconds
C6_Witness ==
    /\ SentAfterExpiry /\ ReachedCsrfCheck
    /\ done.callback.state \in delivered[done.client]
    /\ jar[done.client].ttl = 0
    /\ CsrfFailureDocument(done.response)

\* C7: for every registered project id given to Login, the project the
\* callback extracts from the state token of the Login response is that id.
C7_ProjectRoundTrip ==
    /\ IsLogin /\ done.response.statusCode = 302
    /\ done.login.project \in DOMAIN getConfig(env).projects
    => /\ projectOfState(done.response.location.state) = done.login.project
       /\ projectOfState(extractStateFromCookies(
             BrowserCookieHeader(BrowserStore(done.response.cookies[1]))))
          = done.login.project

C7_Witness ==
    /\ IsLogin /\ done.response.statusCode = 302
    /\ done.login.project = <<"prompts">>
    /\ projectOfState(done.response.location.state) = <<"prompts">>

\* C8: an unknown project never aborts: a Login whose project is not in the
\* registry still answers with the 302 and the cookie, and at the callback
\* every project id that is not in the registry (a state without separator
\* or with an empty project included) resolves to the frontend origin of the
\* default project create.
C8_UnknownProjectLenient ==
    /\ /\ IsLogin /\ validateConfig(env).valid /\ done.login.method = "GET"
       /\ done.login.project \notin DOMAIN getConfig(env).projects
       => done.response.statusCode = 302 /\ done.response.cookies # <<>>
    /\ /\ IsCallback /\ DeliversToken(done.response)
       /\ projectOfState(done.callback.state) \notin DOMAIN getConfig(env).projects
       => done.response.targetOrigin = DefaultOrigin

\* C9: the target origin of the postMessage of every delivery document is the
\* frontend origin of a registered project, never "*" and never a value
\* outside the registry.
C9_TargetOriginRegistered ==
    IsCallback /\ DeliversToken(done.response)
    => /\ done.response.targetOrigin \in RegisteredOrigins
       /\ done.response.targetOrigin # <<"*">>

BothCredentialsMissing ==
    /\ ~Truthy(getConfig(env).github.clientId)
    /\ ~Truthy(getConfig(env).github.clientSecret)

ListsBothMissingItems(resp) ==
    {"Missing GitHub Client ID", "Missing GitHub Client Secret"} \subseteq Range(resp.details)

\* stopped before any further processing: no state token, no cookie, no
\* token request
StoppedAtConfigCheck ==
    /\ done.response.statusCode = 500
    /\ done.response.message = <<"Server configuration error">>
    /\ done.response.location = NoLocation
    /\ done.response.cookies = <<>>
    /\ ~done.exchanged

-----------------------------------------------------------------------------
(* C11..C20 *)

\* text occurs in s as a run of consecutive symbols
Quotes(s, text) ==
    \E i \in 1..(Len(s) - Len(text) + 1) : SubSeq(s, i, i + Len(text) - 1) = text

\* a callback whose query has a provider error parameter, the configuration
\* being valid
CarriesProviderError ==
    /\ IsCallback
    /\ validateConfig(env).valid
    /\ Truthy(done.callback.error)

\* C11: with a valid configuration, a callback request that carries a
\* provider error parameter is answered with the failure document quoting
\* that error and no token request is sent, whether or not code, state and a
\* matching cookie are present as well.
C11_ProviderErrorTerminal ==
    CarriesProviderError
    => /\ done.response.kind = "error_html"
       /\ done.response.statusCode = 400
       /\ Quotes(done.response.message, done.callback.error)
       /\ TokenFree(done.response)
       /\ ~done.exchanged
       /\ done.fetch = NoFetch

\* the error parameter came with a code, a state and the cookie matching it
C11_Witness ==
    /\ CarriesProviderError
    /\ Truthy(done.callback.code)
    /\ Truthy(done.callback.state)
    /\ extractStateFromCookies(done.callback.cookie) = done.callback.state
    /\ done.response.message = <<"GitHub error: ", "access_denied">>

\* an exception was raised inside the try block of the last invocation: in
\* the Login by encodeURIComponent on the cookie value, in the Callback by
\* decodeURIComponent on a cookie, by fetch or by tokenResponse.json()
RaisedInside ==
    \/ /\ IsLogin /\ validateConfig(env).valid /\ done.login.method = "GET"
       /\ encodeURIComponent(OrElse(done.login.project, <<"create">>)) = Thrown
    \/ /\ ReachedCsrfCheck
       /\ extractStateFromCookies(done.callback.cookie) = Thrown
    \/ /\ IsCallback /\ done.exchanged /\ ~done.reply.ok

\* the generic 500: nothing of the fault in the body
GenericInternalError(resp) ==
    /\ resp.statusCode = 500
    /\ resp.message = <<"Internal server error">>
    /\ resp.errorMessage = <<>>
    /\ resp.details = <<>>
    /\ TokenFree(resp)

\* C12: an exception raised inside the Login or the Callback handler is
\* caught and answered with the generic 500, whose body holds no detail of
\* the fault: no error message and no stack trace.
C12_GenericErrorNoDetail ==
    RaisedInside => GenericInternalError(done.response)

clientSecret == getConfig(env).github.clientSecret

\* every text a response carries: its headers, its cookies and its body
ResponseTexts(resp) ==
    {resp.cors.AllowOrigin, resp.location.client_id, resp.location.redirect_uri,
     resp.location.scope, resp.location.state, resp.details, resp.message,
     resp.errorMessage, resp.payload.access_token, resp.targetOrigin}
    \cup Range(resp.cookies)

\* C13: the client secret is in the body of the token request sent to the
\* provider's token endpoint, and in no redirect URL, cookie, header or body
\* of any response of either handler, on success and on every failure path.
C13_SecretOnlyInTokenRequest ==
    done.handler # "none" /\ Truthy(clientSecret)
    => /\ \A text \in ResponseTexts(done.response) : ~Quotes(text, clientSecret)
       /\ done.exchanged
          => /\ done.fetch.client_secret = clientSecret
             /\ done.fetch.url = "https://github.com/login/oauth/access_token"
       /\ ~done.exchanged => done.fetch = NoFetch

\* the secret went to the token endpoint and the token was delivered
C13_Witness ==
    /\ IsCallback /\ done.exchanged
    /\ done.fetch.client_secret = <<"client-secret">>
    /\ DeliversToken(done.response)
    /\ ~Quotes(done.response.message, clientSecret)

\* the callback request of a browser that follows the redirect of a Login
\* response: the state of the redirect URL, the cookie the response set, a code
CallbackAfter(loginResponse) ==
    [method |-> "GET", code |-> <<"abc">>, state |-> loginResponse.location.state,
     error |-> Undefined,
     cookie |-> BrowserCookieHeader(BrowserStore(loginResponse.cookies[1])),
     origin |-> <<>>]

\* C14: under one configuration, the redirect_uri of the token request a
\* callback sends is the redirect_uri of the authorization URL of the Login
\* responses, for every project parameter and every base URL: the callback
\* that follows a Login response sends that response's redirect_uri, and a
\* callback that sends a token request sends the redirect_uri every Login
\* redirect carries.
C14_SameRedirectUri ==
    /\ IsLogin /\ done.response.statusCode = 302
       => LET cb == callbackHandler(env, CallbackAfter(done.response), NoReply)
          IN  cb.exchanged
              => cb.fetch.redirect_uri = done.response.location.redirect_uri
    /\ IsCallback /\ done.exchanged
       => \A project \in Projects, r \in 1..MaxLogins :
             LET resp == loginHandler(env, [method |-> "GET", project |-> project,
                                            origin |-> <<>>], r)
             IN  resp.statusCode = 302
                 => resp.location.redirect_uri = done.fetch.redirect_uri

\* a Login for a project id holding a separator, under an operator-set base
\* URL, whose callback reaches the token endpoint
C14_Witness ==
    /\ IsLogin /\ done.response.statusCode = 302
    /\ env.OAUTH_API_URL = <<"https://oauth.example.com">>
    /\ done.login.project = <<"prompts", ":", "x">>
    /\ done.response.location.redirect_uri =
          <<"https://oauth.example.com", "/oauth/callback">>
    /\ callbackHandler(env, CallbackAfter(done.response), NoReply).exchanged

\* the token endpoint answered the last callback with a JSON body
TokenEndpointAnswered == IsCallback /\ done.exchanged /\ done.reply.ok

FailureDocument(resp, text) ==
    /\ resp.statusCode = 400
    /\ resp.kind = "error_html"
    /\ resp.message = text
    /\ TokenFree(resp)

\* C15: when the answer of the token endpoint reports an error, the callback
\* returns the failure document with the provider's error_description, or the
\* error code when there is no description, and delivers no token even if the
\* answer holds an access_token too; when the answer reports no error and has
\* no access_token, the callback returns the failure document 'No access
\* token received from GitHub'.
C15_UpstreamFailure ==
    /\ TokenEndpointAnswered /\ Truthy(done.reply.error)
       => /\ FailureDocument(done.response,
                <<"Failed to obtain access token: ">>
                \o (IF Truthy(done.reply.error_description)
                    THEN done.reply.error_description ELSE done.reply.error))
          /\ Truthy(done.reply.access_token)
             => ~Quotes(done.response.message, done.reply.access_token)
    /\ TokenEndpointAnswered /\ ~Truthy(done.reply.error)
       /\ ~Truthy(done.reply.access_token)
       => FailureDocument(done.response, <<"No access token received from GitHub">>)

\* the answer held an error and an access_token, and no token was delivered
C15_Witness ==
    /\ TokenEndpointAnswered
    /\ Truthy(done.reply.error) /\ Truthy(done.reply.access_token)
    /\ done.response.message = <<"Failed to obtain access token: ", "bad_verification_code">>
    /\ done.response.payload = NoPayload

\* a Login request that got past the configuration check
LoginWithValidConfig == IsLogin /\ validateConfig(env).valid

\* no part of the login flow ran: no state token, no redirect, no cookie
NoLoginFlow(resp) ==
    /\ resp.location = NoLocation
    /\ resp.cookies = <<>>
    /\ resp.statusCode # 302

\* the Login responses to the request of the last invocation sent with
\* another method
OtherLoginResponses ==
    {loginHandler(env, [done.login EXCEPT !.method = m], r) :
        m \in Methods \ {"OPTIONS"}, r \in 1..MaxLogins}

\* C16: with a valid configuration, every OPTIONS request to the Login is
\* answered with status 200 and the CORS headers the other Login responses to
\* that request carry, and the login flow does not run: no state token, no
\* cookie, no redirect.
C16_PreflightAnswered ==
    LoginWithValidConfig /\ done.login.method = "OPTIONS"
    => /\ done.response.statusCode = 200
       /\ done.response.cors = getCorsHeaders(env, done.login.origin)
       /\ \A other \in OtherLoginResponses : other.cors = done.response.cors
       /\ NoLoginFlow(done.response)

\* a pre-flight from an origin on the allow-list, with a project parameter
C16_Witness ==
    /\ LoginWithValidConfig /\ done.login.method = "OPTIONS"
    /\ done.login.origin = <<"http://localhost:5174">>
    /\ done.login.project = <<"prompts">>
    /\ done.response.cors.AllowOrigin = <<"http://localhost:5174">>

\* C17: with a valid configuration, a Login request whose method is neither
\* GET nor OPTIONS is answered with 405, and no redirect, no state token and
\* no cookie is produced.
C17_OtherMethodsRefused ==
    LoginWithValidConfig /\ done.login.method \notin {"GET", "OPTIONS"}
    => /\ done.response.statusCode = 405
       /\ done.response.message = <<"Method not allowed">>
       /\ NoLoginFlow(done.response)

\* a POST for a registered project was refused
C17_Witness ==
    /\ LoginWithValidConfig /\ done.login.method = "POST"
    /\ done.login.project = <<"create">>
    /\ done.response.statusCode = 405

\* a Login that ran its flow to the end: a GET under a valid configuration
\* whose response is no error response
SuccessfulLogin ==
    /\ LoginWithValidConfig /\ done.login.method = "GET"
    /\ done.response.statusCode < 400

\* the state a browser sends back to the callback as the cookie codec reads
\* it: the Set-Cookie header stored, sent as Cookie header, parsed and decoded
StateSentBack(setCookie) ==
    extractStateFromCookies(BrowserCookieHeader(BrowserStore(setCookie)))

\* C18: every successful Login response is a 302 whose Location is the
\* provider's authorization URL with state = <hex>:<project>, and it sets one
\* oauth_state cookie; the value a browser stores and sends back, decoded by
\* the cookie codec, is the state parameter of the redirect URL.
C18_CookieCarriesState ==
    SuccessfulLogin
    => /\ done.response.statusCode = 302
       /\ done.response.location.endpoint = "https://github.com/login/oauth/authorize"
       /\ \E r \in 1..MaxLogins :
             done.response.location.state =
                RandomHex(r) \o <<":">>
                \o (IF done.login.project = Undefined THEN <<"create">>
                    ELSE done.login.project)
       /\ Len(done.response.cookies) = 1
       /\ BrowserStore(done.response.cookies[1]).name = <<"oauth_state">>
       /\ StateSentBack(done.response.cookies[1]) = done.response.location.state

\* the project id holds the characters the cookie syntax gives a meaning to
C18_Witness ==
    /\ SuccessfulLogin
    /\ done.login.project = <<"50", "%", ";", " ", "x">>
    /\ StateSentBack(done.response.cookies[1]) = <<"h2", ":", "50", "%", ";", " ", "x">>

\* the attributes of a Set-Cookie header
CookieAttributes(header) ==
    {Trim(Split(header, ";")[i]) : i \in 2..Len(Split(header, ";"))}

\* C19: every oauth_state cookie the Login issues has the attributes
\* HttpOnly, SameSite=Lax, Max-Age=600 and Path=/, and has the attribute
\* Secure if and only if NODE_ENV is production.
C19_CookieAttributes ==
    IsLogin /\ done.response.cookies # <<>>
    => \A i \in 1..Len(done.response.cookies) :
          LET attributes == CookieAttributes(done.response.cookies[i])
          IN  /\ <<"HttpOnly">> \in attributes
              /\ <<"SameSite", "=", "Lax">> \in attributes
              /\ <<"Max-Age", "=", "600">> \in attributes
              /\ <<"Path", "=", "/">> \in attributes
              /\ <<"Secure">> \in attributes <=> env.NODE_ENV = "production"
              /\ BrowserStore(done.response.cookies[i]).ttl = 600

\* a cookie issued outside production: without Secure
C19_Witness ==
    /\ IsLogin /\ done.response.cookies # <<>>
    /\ env.NODE_ENV = "development"
    /\ <<"Secure">> \notin CookieAttributes(done.response.cookies[1])
    /\ <<"HttpOnly">> \in CookieAttributes(done.response.cookies[1])

\* the body of the response holds the access token the token endpoint gave
BodyHoldsToken(resp) ==
    /\ Truthy(done.reply.access_token)
    /\ \/ resp.payload.access_token = done.reply.access_token
       \/ Quotes(resp.message, done.reply.access_token)

\* C20: every callback response whose body holds the access token carries
\* the header Cache-Control: no-store, no-cache, must-revalidate.
C20_TokenResponseNotCached ==
    IsCallback /\ done.exchanged /\ BodyHoldsToken(done.response)
    => done.response.cacheControl = "no-store, no-cache, must-revalidate"

\* a token was delivered to a client that named an origin off the allow-list
C20_Witness ==
    /\ IsCallback /\ done.exchanged /\ BodyHoldsToken(done.response)
    /\ done.reply.access_token = <<"tok456">>
    /\ done.callback.origin = <<"https://evil.example">>
    /\ done.response.cacheControl # ""

-----------------------------------------------------------------------------
(* C21..C29 *)

\* The reference decoder of the cookie contract: the header split on ";",
\* each piece trimmed and split at its first "=", the value percent-decoded;
\* pieces without name or without value give no entry.  [threw, map] as
\* parseCookies: threw when a value is no percent-encoding.
RECURSIVE ReferenceFrom(_, _, _)
ReferenceFrom(pieces, i, cookies) ==
    IF i > Len(pieces) \/ cookies.threw THEN cookies
    ELSE LET pair == Trim(pieces[i])
             name == BeforeFirst(pair, "=")
             value == AfterFirst(pair, "=")
             decoded == IF Truthy(value) THEN decodeURIComponent(value) ELSE <<>>
         IN  IF ~Truthy(name) \/ ~Truthy(value)
             THEN ReferenceFrom(pieces, i + 1, cookies)
             ELSE IF decoded = Thrown THEN [cookies EXCEPT !.threw = TRUE]
             ELSE ReferenceFrom(pieces, i + 1,
                     [cookies EXCEPT !.map =
                         [n \in (DOMAIN cookies.map) \cup {name} |->
                             IF n = name THEN decoded ELSE cookies.map[n]]])

ReferenceDecoder(header) ==
    ReferenceFrom(Split(IF header = Undefined THEN <<>> ELSE header, ";"), 1,
                  [threw |-> FALSE, map |-> [n \in {} |-> <<>>]])

\* the tolerated Cookie headers: none, an empty one, and headers of
\* well-formed pairs none of which gives oauth_state a value
Tolerated(header) ==
    /\ ~ReferenceDecoder(header).threw
    /\ <<"oauth_state">> \notin DOMAIN ReferenceDecoder(header).map

C22_ParseCookiesIsReference ==
    IsCallback
    => /\ parseCookies(done.callback.cookie).threw
          = ReferenceDecoder(done.callback.cookie).threw
       /\ ~parseCookies(done.callback.cookie).threw
          => /\ DOMAIN parseCookies(done.callback.cookie).map
                = DOMAIN ReferenceDecoder(done.callback.cookie).map
             /\ \A n \in DOMAIN parseCookies(done.callback.cookie).map :
                   parseCookies(done.callback.cookie).map[n]
                   = ReferenceDecoder(done.callback.cookie).map[n]

\* the outcome of the last callback's request sent with method m
WithMethod(m) ==
    callbackHandler(env, [done.callback EXCEPT !.method = m], done.reply)

\* C28: the callback has no method check: a request gets the same outcome
\* with every method, so a POST or an OPTIONS goes through the same checks as
\* a GET and can reach the token request and the delivery; no callback is
\* answered with 405 or as a pre-flight.
C28_CallbackIgnoresMethod ==
    IsCallback
    => /\ \A m \in CallbackMethods :
             WithMethod(m) = [response |-> done.response, exchanged |-> done.exchanged,
                              fetch |-> done.fetch]
       /\ done.response.statusCode # 405
       /\ done.response.kind \notin {"preflight", "method_not_allowed"}

\* an OPTIONS request to the callback was answered with the token
C28_Witness ==
    /\ IsCallback /\ done.callback.method = "OPTIONS"
    /\ done.exchanged
    /\ DeliversToken(done.response)
    /\ done.response.statusCode = 200

\* C25: the only cookie the service sets is the oauth_state cookie of the
\* Login 302 response: a Login 500, 405 or pre-flight response and every
\* callback response set no cookie, and no cookie holds the access token.
C25_OnlyStateCookie ==
    done.handler # "none"
    => /\ done.response.cookies # <<>>
          => /\ IsLogin /\ done.response.statusCode = 302
             /\ Len(done.response.cookies) = 1
             /\ BrowserStore(done.response.cookies[1]).name = <<"oauth_state">>
             /\ StateSentBack(done.response.cookies[1]) = done.response.location.state
       /\ IsLogin /\ done.response.statusCode # 302 => done.response.cookies = <<>>
       /\ IsCallback => done.response.cookies = <<>>
       /\ IsCallback /\ Truthy(done.reply.access_token)
          => \A i \in 1..Len(done.response.cookies) :
                ~Quotes(done.response.cookies[i], done.reply.access_token)

\* a token was delivered by a response that sets no cookie
C25_Witness ==
    /\ IsCallback /\ DeliversToken(done.response)
    /\ done.response.payload.access_token = <<"tok123">>
    /\ done.response.cookies = <<>>
    /\ done.callback.method = "POST"

\* the failure paths of a callback that answer 400, by the check that ended it
CallbackFailurePath ==
    /\ IsCallback /\ validateConfig(env).valid
    /\ \/ Truthy(done.callback.error)
       \/ ~Truthy(done.callback.code) \/ ~Truthy(done.callback.state)
       \/ /\ extractStateFromCookies(done.callback.cookie) # Thrown
          /\ extractStateFromCookies(done.callback.cookie) # done.callback.state
       \/ /\ done.exchanged /\ done.reply.ok
          /\ Truthy(done.reply.error) \/ ~Truthy(done.reply.access_token)

\* a callback stopped by the configuration check or by a caught exception
CallbackErrorPath ==
    /\ IsCallback
    /\ \/ ~validateConfig(env).valid
       \/ ReachedCsrfCheck /\ extractStateFromCookies(done.callback.cookie) = Thrown
       \/ done.exchanged /\ ~done.reply.ok

\* C27: a callback response has status 200 if and only if its body carries
\* the access token; the provider-error, missing-parameter, CSRF, exchange
\* error and missing-token paths answer 400, configuration errors and caught
\* exceptions answer 500.
C27_CallbackStatusCodes ==
    IsCallback
    => /\ done.response.statusCode = 200
          <=> /\ done.exchanged /\ Truthy(done.reply.access_token)
              /\ done.response.payload.access_token = done.reply.access_token
       /\ CallbackFailurePath => done.response.statusCode = 400
       /\ CallbackErrorPath => done.response.statusCode = 500
       /\ done.response.statusCode \in {200, 400, 500}

\* the token endpoint answered with an error beside a token: 400, no token
C27_Witness ==
    /\ CallbackFailurePath /\ done.exchanged
    /\ Truthy(done.reply.error) /\ Truthy(done.reply.access_token)
    /\ done.response.statusCode = 400
    /\ done.response.payload = NoPayload

TokenEndpoint == "https://github.com/login/oauth/access_token"

\* the outcome of the last callback invocation
Outcome == [response |-> done.response, exchanged |-> done.exchanged, fetch |-> done.fetch]

\* C23: whatever invocations of other requests ran before an invocation and
\* during its await, its response is the response the handler gives to that
\* request alone: for a callback a function of its query, its cookie, the
\* configuration and the provider's reply to it, for a Login of its request,
\* the configuration and its random draw; and the token request of an
\* invocation in flight is the one its own request gives.
C23_InvocationsIndependent ==
    /\ IsCallback => Outcome = callbackHandler(env, done.callback, done.reply)
    /\ IsLogin => \E r \in 1..MaxLogins :
                     done.response = loginHandler(env, done.login, r)
    /\ \A b \in Browsers :
          pending[b].busy
          => /\ ~callbackBeforeFetch(env, pending[b].callback).terminal
             /\ pending[b].fetch = callbackBeforeFetch(env, pending[b].callback).fetch

\* a callback delivered its token after the callback of another browser,
\* for the other project, had ended, and while that browser has the next in
\* flight
C23_Witness ==
    /\ IsCallback /\ DeliversToken(done.response)
    /\ \E o \in Others(done.client) :
          /\ pending[o].busy
          /\ delivered[o] # {}
          /\ projectOfState(pending[o].callback.state)
             # projectOfState(done.callback.state)

\* an invocation ends only on an answer of the token endpoint or a failure
\* of the call, and then at once
EndsOnAnswer ==
    \A b \in Browsers :
       pending[b].busy /\ pending'[b] # pending[b]
       => /\ pending'[b] = NoPending
          /\ done'.handler = "callback" /\ done'.client = b
          /\ done'.callback = pending[b].callback
          /\ done'.exchanged /\ done'.fetch = pending[b].fetch
          /\ done'.reply \in ConcReplies
          /\ done'.response = callbackAfterFetch(env, pending[b].callback,
                                 pending[b].frontendOrigin, done'.reply)

\* C24: a callback invocation sends at most one request to the token
\* endpoint; when the call fails the invocation ends at once in the failure
\* document of the catch block, without a second request.
C24_NoRetry ==
    /\ [](\A b \in Browsers :
            /\ pending[b].sent <= 1
            /\ pending[b].busy => pending[b].sent = 1 /\ pending[b].fetch.url = TokenEndpoint)
    /\ [](IsCallback /\ done.exchanged /\ ~done.reply.ok
          => GenericInternalError(done.response) /\ done.response.kind = "error_html")
    /\ [][EndsOnAnswer]_vars

\* the call of the token endpoint failed and the invocation ended with 500
\* while the other browser's invocation is in flight
C24_Witness ==
    /\ IsCallback /\ done.exchanged /\ ~done.reply.ok
    /\ done.response.statusCode = 500
    /\ ~pending[done.client].busy
    /\ \E o \in Others(done.client) : pending[o].busy

\* the last invocation is a callback of a browser with a state whose
\* callback had delivered before, sent with the live cookie of that state
ReplayWithLiveCookie ==
    /\ IsCallback /\ done.client \in Browsers
    /\ ReachedCsrfCheck
    /\ done.callback.state \in delivered[done.client]
    /\ done.callback.cookie # Undefined
    /\ extractStateFromCookies(done.callback.cookie) = done.callback.state

\* a browser's cookie changes only by the Set-Cookie of a Login response to
\* that browser and by the passing of time
JarChangesOnlyAtLogin ==
    \A b \in Browsers :
       jar'[b] # jar[b]
       => \/ /\ done'.handler = "login" /\ done'.client = b
             /\ done'.response.statusCode = 302
             /\ jar'[b] = BrowserStore(done'.response.cookies[1])
          \/ jar' = [o \in Browsers |-> Aged(jar[o], TickStep)] /\ done' = done

\* C26: no callback clears or replaces the oauth_state cookie, and no record
\* of used states is kept: as long as the cookie has not expired, a further
\* callback with the state and the cookie of a callback that delivered
\* passes the CSRF check again and sends another token request.
C26_ReplayWhileCookieLives ==
    /\ [](ReplayWithLiveCookie
          => /\ done.exchanged
             /\ done.fetch.url = TokenEndpoint
             /\ ~CsrfFailureDocument(done.response))
    /\ [][JarChangesOnlyAtLogin]_vars

\* after its delivery a state was sent again with its cookie, half the
\* cookie's lifetime later: the token request went out, the provider
\* refused the code
C26_Witness ==
    /\ ReplayWithLiveCookie
    /\ done.exchanged
    /\ Truthy(done.reply.error)
    /\ jar[done.client].ttl = CookieMaxAge - TickStep

InFlight(b) == pending[b].busy

\* the last invocation ended in one response, and a Login made no outbound call
OneResponse ==
    /\ done.handler # "none"
       => /\ done.response.statusCode \in {200, 302, 400, 405, 500}
          /\ done.response.kind # ""
    /\ IsLogin => ~done.exchanged /\ done.fetch = NoFetch /\ done.reply = NoReply
    /\ IsCallback /\ ~done.exchanged => done.fetch = NoFetch

\* a Login never waits: its client has its response in the step it is made
\* in, and no invocation in flight is a Login
LoginNeverWaits ==
    \A b \in Browsers : InFlight(b) => pending[b].fetch.url = TokenEndpoint

\* C29: every invocation ends in exactly one response.  A Login ends without
\* outbound call; a callback that awaits the token endpoint ends, in one
\* response, once the call resolves or rejects, which is assumed to happen
\* in the end; it ends on nothing else, so without an answer it never
\* responds: there is no timeout.
C29_OneResponsePerInvocation ==
    /\ [](OneResponse /\ LoginNeverWaits)
    /\ [][EndsOnAnswer]_vars
    /\ \A b \in Browsers : InFlight(b) ~> ~InFlight(b)

\* a Login was answered while the callbacks of both browsers await the
\* token endpoint
C29_Witness ==
    /\ IsLogin /\ done.response.statusCode = 302
    /\ \A b \in Browsers : InFlight(b)

=============================================================================
